---- MODULE Spec2Model ----
(***************************************************************************)
(* The transaction Oracle of fjall (src/src/tx/oracle.rs): timestamp       *)
(* allocation, conflict detection, committed-list garbage collection and  *)
(* the two watermarks (read_mark, txn_mark) with their shared Closer.      *)
(*                                                                         *)
(* Callers are modelled as threads that run transactions one after the     *)
(* other: read_ts(), then new_commit_ts(), then done_commit().  Every      *)
(* statement that runs under the `inner` mutex is one atomic action; the   *)
(* statements of read_ts() that run after the guard is dropped are         *)
(* separate actions.  The WaterMark and Closer types come from the wmark   *)
(* crate and ConflictChecker from tx/conflict_manager: their behaviour is  *)
(* taken from the design document (sections 4.1, 4.2, 4.5).                *)
(*                                                                         *)
(* The Keyspace (src/fjall/src/keyspace.rs) is modelled beside it: the     *)
(* sequence counter, the map of open partitions and open_partition.        *)
(***************************************************************************)
EXTENDS Integers, Sequences, FiniteSets, TLC

\* ---------------------------------------------------------------- bounds
NumThreads == 2        \* concurrent callers
MaxTs == 3             \* largest commit timestamp handed out
MaxStart == 2          \* largest next_txn_ts given to Oracle::new
MaxIncrements == 1     \* calls of increment_next_ts
U64Modulus == 16       \* timestamps are u64: 2^64 values, scaled to 16
MaxSeqno == 3          \* largest next seqno a stored tree recovers
MaxOpens == 3          \* storage trees opened by open_partition

Threads == 1..NumThreads
NoTs == 0 - 1
NoFingerprint == [reads |-> {}, writes |-> {}]

VARIABLES
    next_txn_ts,       \* OracleInner.next_txn_ts
    last_cleanup_ts,   \* OracleInner.last_cleanup_ts
    committed_txns,    \* OracleInner.committed_txns: Seq of CommittedTxn
    poisoned,          \* the inner mutex is poisoned (a holder panicked)
    read_mark,         \* Oracle.read_mark (WaterMark)
    txn_mark,          \* Oracle.txn_mark (WaterMark)
    closer,            \* Oracle.closer
    oracle,            \* lifecycle: "alive", "stopping", "dropped"
    pc,                \* per thread: position in its transaction
    read_ts,           \* per thread: local read_ts of the transaction
    fp,                \* per thread: the transaction's ConflictChecker
    done_read,         \* per thread: the caller's done_read flag
    commit_ts,         \* per thread: timestamp returned by new_commit_ts
    increments,        \* number of increment_next_ts calls so far
    log,               \* history: successful new_commit_ts calls, in order
    done_called,       \* history: timestamps passed to done_commit
    max_begin,         \* history: per watermark, largest index begun so far
    max_returned,      \* history: largest value read_ts() has returned
    read_dones,        \* history: per thread, read_mark.done calls issued
                       \* for its current transaction
    start_ts,          \* history: the next_txn_ts given to Oracle::new
    seqno,             \* KeyspaceInner.seqno
    partitions,        \* KeyspaceInner.partitions: name -> tree
    trees,             \* storage: per partition folder, the next seqno a
                       \* tree opened there recovers
    opens              \* history: names whose storage tree was opened

keyspace_vars == <<seqno, partitions, trees, opens>>

oracle_vars == <<next_txn_ts, last_cleanup_ts, committed_txns, poisoned,
                 read_mark, txn_mark,
                 closer, oracle, pc, read_ts, fp, done_read, commit_ts,
                 increments, log, done_called, max_begin, max_returned,
                 read_dones, start_ts>>

vars == <<oracle_vars, keyspace_vars>>

\* ------------------------------------------------------- ConflictChecker
\* A fingerprint is the set of keys read and the set of keys written.  The
\* transactions tried: read and write a; write a blindly; write b blindly.
ConflictCheckers ==
    {[reads |-> {"a"}, writes |-> {"a"}],
     [reads |-> {}, writes |-> {"a"}],
     [reads |-> {}, writes |-> {"b"}]}

\* has_conflict(self, other): self read a key that other wrote.
has_conflict(self, other) == self.reads \cap other.writes # {}

\* -------------------------------------------------------------- WaterMark
SetMin(S) == CHOOSE x \in S : \A y \in S : x <= y
MaxOf(a, b) == IF a >= b THEN a ELSE b

\* WaterMark::new: nothing pending, done_until 0, processing loop not started.
WaterMarkNew ==
    [queue |-> <<>>, pending |-> <<>>, done_until |-> 0, waiters |-> {},
     woken |-> {}, running |-> FALSE]

\* WaterMark::init: start the processing loop.
WaterMarkInit(w) == [w EXCEPT !.running = TRUE]

\* begin / done / the slow path of wait_for_mark: one event on the queue.
WaterMarkSend(w, ev) == [w EXCEPT !.queue = Append(@, ev)]

WaterMarkBegin(w, index) ==
    WaterMarkSend(w, [kind |-> "begin", index |-> index, thread |-> 0])

WaterMarkDone(w, index) ==
    WaterMarkSend(w, [kind |-> "done", index |-> index, thread |-> 0])

WaterMarkWait(w, index, t) ==
    WaterMarkSend(w, [kind |-> "wait", index |-> index, thread |-> t])

\* done_until(): the atomic frontier, read without the queue.
WaterMarkDoneUntil(w) == w.done_until

\* Retire the smallest indices with no pending begin; the frontier moves to
\* the largest index retired and never moves back.
RECURSIVE Drain(_, _)
Drain(pending, until) ==
    IF DOMAIN pending = {} THEN <<pending, until>>
    ELSE LET min == SetMin(DOMAIN pending) IN
         IF pending[min] > 0 THEN <<pending, until>>
         ELSE Drain([i \in DOMAIN pending \ {min} |-> pending[i]],
                    MaxOf(until, min))

\* The processing loop takes one event off the queue.
WaterMarkProcessOne(w) ==
    LET ev == Head(w.queue)
        rest == Tail(w.queue)
    IN  IF ev.kind = "wait"
        THEN IF w.done_until >= ev.index
             THEN [w EXCEPT !.queue = rest, !.woken = @ \cup {ev.thread}]
             ELSE [w EXCEPT !.queue = rest,
                            !.waiters = @ \cup {<<ev.index, ev.thread>>}]
        ELSE LET prev == IF ev.index \in DOMAIN w.pending
                         THEN w.pending[ev.index] ELSE 0
                 delta == IF ev.kind = "done" THEN -1 ELSE 1
                 counted == [i \in DOMAIN w.pending \cup {ev.index} |->
                               IF i = ev.index THEN prev + delta
                               ELSE w.pending[i]]
                 drained == Drain(counted, w.done_until)
                 until == drained[2]
                 ready == {x \in w.waiters : x[1] <= until}
             IN  [w EXCEPT !.queue = rest,
                           !.pending = drained[1],
                           !.done_until = until,
                           !.waiters = @ \ ready,
                           !.woken = @ \cup {x[2] : x \in ready}]

\* ----------------------------------------------------------------- Closer
\* Closer::new(n): a signal and a wait group of n participants.
CloserNew(n) == [signals |-> 0, wg |-> n]
CloserSignal(c) == [c EXCEPT !.signals = @ + 1]
CloserDone(c) == [c EXCEPT !.wg = @ - 1]
CloserReleased(c) == c.wg <= 0

\* ------------------------------------------------------------ Oracle::new
OracleCloserOne == CloserNew(1)
OracleCloser == CloserNew(2)

\* Lines 156-177, for a next_txn_ts drawn from `starts`.
OracleNew(starts) ==
    /\ next_txn_ts \in starts
    /\ last_cleanup_ts = 0
    /\ committed_txns = <<>>
    /\ poisoned = FALSE
    /\ read_mark = WaterMarkInit(WaterMarkNew)
    /\ txn_mark = WaterMarkInit(WaterMarkNew)
    /\ closer = OracleCloser
    /\ oracle = "alive"
    /\ pc = [t \in Threads |-> "idle"]
    /\ read_ts = [t \in Threads |-> 0]
    /\ fp = [t \in Threads |-> NoFingerprint]
    /\ done_read = [t \in Threads |-> FALSE]
    /\ commit_ts = [t \in Threads |-> NoTs]
    /\ increments = 0
    /\ log = <<>>
    /\ done_called = {}
    /\ max_begin = [read_mark |-> NoTs, txn_mark |-> NoTs]
    /\ max_returned = NoTs
    /\ read_dones = [t \in Threads |-> 0]
    /\ start_ts = next_txn_ts

\* --------------------------------------------------------------- Keyspace
PartitionNames == {"p", "q"}

\* SequenceNumberCounter::default(), the counter of a keyspace just created
\* or recovered (keyspace.rs lines 138 and 176).
SequenceNumberCounterDefault == 0

\* Keyspace::create_new: no partition is open, every partition folder is
\* still to be created, so a tree opened there starts at seqno 0.
KeyspaceCreateNew ==
    /\ seqno = SequenceNumberCounterDefault
    /\ partitions = <<>>
    /\ trees = [n \in PartitionNames |-> 0]
    /\ opens = <<>>

\* Keyspace::recover: no partition is open, the folders hold trees written
\* by earlier runs.
KeyspaceRecover ==
    /\ seqno = SequenceNumberCounterDefault
    /\ partitions = <<>>
    /\ trees \in [PartitionNames -> 0..MaxSeqno]
    /\ opens = <<>>

\* Lines 120-121: self.seqno.fetch_max(tree_next_seqno, AcqRel).
FetchStore(current, tree_next_seqno) == tree_next_seqno
FetchMax(current, tree_next_seqno) == MaxOf(current, tree_next_seqno)

\* Lines 81-130, all under the partitions write lock: return the tree the
\* map holds for the name, else open the storage tree and raise the
\* counter to its next seqno.  The map is read, never written.
OpenPartition(name) ==
    /\ IF name \in DOMAIN partitions
       THEN UNCHANGED <<seqno, opens>>
       ELSE /\ Len(opens) < MaxOpens
            /\ opens' = Append(opens, name)
            /\ seqno' = FetchMax(seqno, trees[name])
    /\ UNCHANGED <<partitions, trees>>
    /\ UNCHANGED oracle_vars

Init == OracleNew(1..MaxStart) /\ KeyspaceCreateNew

\* ------------------------------------------------------- Oracle::read_ts
\* `inner.next_txn_ts - 1`, computed under the inner lock.
ReadTsValueBehind(next) == IF next >= 2 THEN next - 2 ELSE 0
ReadTsValue(next) == next - 1

\* Lines 181-184: lock inner, compute read_ts, drop the guard.  On a
\* poisoned mutex every lock() returns Error::Poisoned and changes nothing.
ReadTsLock(t) ==
    /\ oracle = "alive"
    /\ ~poisoned
    /\ pc[t] = "idle"
    /\ ReadTsValue(next_txn_ts) >= 0
    /\ read_ts' = [read_ts EXCEPT ![t] = ReadTsValue(next_txn_ts)]
    /\ pc' = [pc EXCEPT ![t] = "read_begin"]
    /\ UNCHANGED <<next_txn_ts, last_cleanup_ts, committed_txns, poisoned,
                   read_mark,
                   txn_mark, closer, oracle, fp, done_read, commit_ts,
                   increments, log, done_called, max_begin, max_returned>>
    /\ UNCHANGED <<read_dones, start_ts, keyspace_vars>>

\* Line 183 with next_txn_ts = 0: the u64 subtraction underflows.  A build
\* with overflow checks panics with the guard held and poisons the mutex; a
\* build without them wraps around and goes on with the largest u64.
WrappingU64(x) == x % U64Modulus

ReadTsUnderflow(t) ==
    /\ oracle = "alive"
    /\ ~poisoned
    /\ pc[t] = "idle"
    /\ ReadTsValue(next_txn_ts) < 0
    /\ \E overflow_checks \in BOOLEAN :
          IF overflow_checks
          THEN /\ poisoned' = TRUE
               /\ pc' = [pc EXCEPT ![t] = "panicked"]
               /\ UNCHANGED read_ts
          ELSE /\ read_ts' = [read_ts EXCEPT ![t] =
                                 WrappingU64(ReadTsValue(next_txn_ts))]
               /\ pc' = [pc EXCEPT ![t] = "read_begin"]
               /\ UNCHANGED poisoned
    /\ UNCHANGED <<next_txn_ts, last_cleanup_ts, committed_txns, read_mark,
                   txn_mark, closer, oracle, fp, done_read, commit_ts,
                   increments, log, done_called, max_begin, max_returned>>
    /\ UNCHANGED <<read_dones, start_ts, keyspace_vars>>

\* Line 185: read_mark.begin(read_ts), after the guard is dropped.
ReadTsBegin(t) ==
    /\ pc[t] = "read_begin"
    /\ read_mark' = WaterMarkBegin(read_mark, read_ts[t])
    /\ max_begin' = [max_begin EXCEPT !.read_mark = MaxOf(@, read_ts[t])]
    /\ pc' = [pc EXCEPT ![t] = "read_wait"]
    /\ UNCHANGED <<next_txn_ts, last_cleanup_ts, committed_txns, poisoned,
                   txn_mark,
                   closer, oracle, read_ts, fp, done_read, commit_ts,
                   increments, log, done_called, max_returned>>
    /\ UNCHANGED <<read_dones, start_ts, keyspace_vars>>

\* Line 193: txn_mark.wait_for_mark(read_ts): return at once when the
\* frontier is there, else queue a waiter and suspend.
ReadTsNoWait(t) ==
    /\ pc[t] = "read_wait"
    /\ pc' = [pc EXCEPT ![t] = "active"]
    /\ max_returned' = MaxOf(max_returned, read_ts[t])
    /\ UNCHANGED <<next_txn_ts, last_cleanup_ts, committed_txns, poisoned,
                   read_mark,
                   txn_mark, closer, oracle, read_ts, fp, done_read,
                   commit_ts, increments, log, done_called, max_begin>>
    /\ UNCHANGED <<read_dones, start_ts, keyspace_vars>>

ReadTsWait(t) ==
    /\ pc[t] = "read_wait"
    /\ IF WaterMarkDoneUntil(txn_mark) >= read_ts[t]
       THEN /\ pc' = [pc EXCEPT ![t] = "active"]
            /\ max_returned' = MaxOf(max_returned, read_ts[t])
            /\ UNCHANGED txn_mark
       ELSE /\ txn_mark' = WaterMarkWait(txn_mark, read_ts[t], t)
            /\ pc' = [pc EXCEPT ![t] = "read_blocked"]
            /\ UNCHANGED max_returned
    /\ UNCHANGED <<next_txn_ts, last_cleanup_ts, committed_txns, poisoned,
                   read_mark,
                   closer, oracle, read_ts, fp, done_read, commit_ts,
                   increments, log, done_called, max_begin>>
    /\ UNCHANGED <<read_dones, start_ts, keyspace_vars>>

\* Lines 193-194: the waiter is notified and read_ts() returns.
ReadTsWake(t) ==
    /\ pc[t] = "read_blocked"
    /\ t \in txn_mark.woken
    /\ txn_mark' = [txn_mark EXCEPT !.woken = @ \ {t}]
    /\ pc' = [pc EXCEPT ![t] = "active"]
    /\ max_returned' = MaxOf(max_returned, read_ts[t])
    /\ UNCHANGED <<next_txn_ts, last_cleanup_ts, committed_txns, poisoned,
                   read_mark,
                   closer, oracle, read_ts, fp, done_read, commit_ts,
                   increments, log, done_called, max_begin>>
    /\ UNCHANGED <<read_dones, start_ts, keyspace_vars>>

\* ------------------------------------------------- Oracle::new_commit_ts
\* Line 86: a record at or below the snapshot is skipped.
SkipLess(ts, r) == ts < r
Skip(ts, r) == ts <= r

\* Lines 79-95: the scan of committed_txns, first conflicting record wins.
RECURSIVE Scan(_, _, _, _)
Scan(txns, i, r, cm) ==
    IF i > Len(txns) THEN FALSE
    ELSE IF Skip(txns[i].ts, r) THEN Scan(txns, i + 1, r, cm)
    ELSE IF has_conflict(cm, txns[i].conflict_manager) THEN TRUE
    ELSE Scan(txns, i + 1, r, cm)

\* Line 149: committed_txns.retain(|txn| txn.ts > max_read_ts).
RetainAtLeast(txns, max_read_ts) ==
    SelectSeq(txns, LAMBDA txn : txn.ts >= max_read_ts)
RetainAboveNext(txns, max_read_ts) ==
    SelectSeq(txns, LAMBDA txn : txn.ts > max_read_ts + 1)
Retain(txns, max_read_ts) ==
    SelectSeq(txns, LAMBDA txn : txn.ts > max_read_ts)

\* Lines 126-152: cleanup_committed_transactions, as the new
\* <<last_cleanup_ts, committed_txns>> given the reader frontier.
CleanupCommittedTransactions(max_read_ts, last, txns) ==
    IF max_read_ts = last THEN <<last, txns>>
    ELSE <<max_read_ts, Retain(txns, max_read_ts)>>

\* Lines 106-107: `ts = next_txn_ts; next_txn_ts += 1`.
NextAfterSame(ts) == ts
NextAfterTwo(ts) == ts + 2
NextAfter(ts) == ts + 1

\* Lines 98-101: `if !*done_read { read_mark.done(read_ts)?; ... }`.
ReleaseReadMarkAlways(flag, w, r) == WaterMarkDone(w, r)
ReleaseReadMark(flag, w, r) == IF flag THEN w ELSE WaterMarkDone(w, r)

\* Line 139: assert!(max_read_ts >= inner.last_cleanup_ts).
AssertFloorStrict(max_read_ts, last) == max_read_ts > last
AssertFloor(max_read_ts, last) == max_read_ts >= last

\* Line 112: assert!(ts >= inner.last_cleanup_ts).
AssertTs(ts, last) == ts >= last

\* Lines 76-124, all under the inner lock.  A failed assertion (line 139 or
\* line 112) panics with the guard held: the caller is gone and the mutex
\* is poisoned, with everything done up to that line in place.
CommitCall(t, cm) ==
    /\ oracle = "alive"
    /\ ~poisoned
    /\ fp' = [fp EXCEPT ![t] = cm]
    /\ LET rm == ReleaseReadMark(done_read[t], read_mark, read_ts[t])
           issued == Len(rm.queue) - Len(read_mark.queue)
           max_read_ts == WaterMarkDoneUntil(rm)
           cleaned == CleanupCommittedTransactions(
                          max_read_ts, last_cleanup_ts, committed_txns)
           ts == next_txn_ts
       IN  IF Scan(committed_txns, 1, read_ts[t], cm)
           THEN \* Conflict(Some(conflict_manager))
                /\ pc' = [pc EXCEPT ![t] = "conflict"]
                /\ UNCHANGED <<next_txn_ts, last_cleanup_ts, committed_txns,
                               read_mark, txn_mark, done_read, commit_ts,
                               log, max_begin, poisoned, read_dones>>
           ELSE IF ~AssertFloor(max_read_ts, last_cleanup_ts)
           THEN \* assert!(max_read_ts >= inner.last_cleanup_ts) fails
                /\ read_mark' = rm
                /\ done_read' = [done_read EXCEPT ![t] = TRUE]
                /\ read_dones' = [read_dones EXCEPT ![t] = @ + issued]
                /\ poisoned' = TRUE
                /\ pc' = [pc EXCEPT ![t] = "panicked"]
                /\ UNCHANGED <<next_txn_ts, last_cleanup_ts, committed_txns,
                               txn_mark, commit_ts, log, max_begin>>
           ELSE /\ read_mark' = rm
                /\ done_read' = [done_read EXCEPT ![t] = TRUE]
                /\ read_dones' = [read_dones EXCEPT ![t] = @ + issued]
                /\ last_cleanup_ts' = cleaned[1]
                /\ next_txn_ts' = NextAfter(ts)
                /\ txn_mark' = WaterMarkBegin(txn_mark, ts)
                /\ max_begin' = [max_begin EXCEPT !.txn_mark = MaxOf(@, ts)]
                /\ IF ~AssertTs(ts, cleaned[1])
                   THEN \* assert!(ts >= inner.last_cleanup_ts) fails
                        /\ committed_txns' = cleaned[2]
                        /\ poisoned' = TRUE
                        /\ pc' = [pc EXCEPT ![t] = "panicked"]
                        /\ UNCHANGED <<commit_ts, log>>
                   ELSE \* Timestamp(ts)
                        /\ committed_txns' =
                              Append(cleaned[2],
                                     [ts |-> ts, conflict_manager |-> cm])
                        /\ commit_ts' = [commit_ts EXCEPT ![t] = ts]
                        /\ log' = Append(log, [ts |-> ts,
                                               conflict_manager |-> cm,
                                               read_ts |-> read_ts[t]])
                        /\ pc' = [pc EXCEPT ![t] = "committed"]
                        /\ UNCHANGED poisoned
    /\ UNCHANGED <<closer, oracle, read_ts, increments, done_called,
                   max_returned>>
    /\ UNCHANGED <<start_ts, keyspace_vars>>

\* A call that releases the read mark before the scan, Conflict or not.
NewCommitTsReleasing(t, cm) ==
    /\ \/ pc[t] = "active"
       \/ pc[t] = "conflict" /\ cm = fp[t]
    /\ IF Scan(committed_txns, 1, read_ts[t], cm)
       THEN /\ oracle = "alive"
            /\ ~poisoned
            /\ fp' = [fp EXCEPT ![t] = cm]
            /\ pc' = [pc EXCEPT ![t] = "conflict"]
            /\ read_mark' =
                  ReleaseReadMark(done_read[t], read_mark, read_ts[t])
            /\ done_read' = [done_read EXCEPT ![t] = TRUE]
            /\ read_dones' = [read_dones EXCEPT ![t] =
                                @ + Len(read_mark'.queue)
                                  - Len(read_mark.queue)]
            /\ UNCHANGED <<next_txn_ts, last_cleanup_ts, committed_txns,
                           txn_mark, commit_ts, log, max_begin, poisoned,
                           closer, oracle, read_ts, increments, done_called,
                           max_returned, start_ts, keyspace_vars>>
       ELSE CommitCall(t, cm)

\* new_commit_ts for a transaction that holds a read timestamp: its first
\* attempt, or another attempt after a Conflict with the fingerprint the
\* Conflict handed back.
NewCommitTs(t, cm) ==
    /\ \/ pc[t] = "active"
       \/ pc[t] = "conflict" /\ cm = fp[t]
    /\ CommitCall(t, cm)

\* new_commit_ts called once more for a transaction that already holds a
\* commit timestamp, with the same read_ts, fingerprint and done_read flag.
NewCommitTsAgain(t) ==
    /\ pc[t] = "committed"
    /\ CommitCall(t, fp[t])

\* ---------------------------------------------------- Oracle::done_commit
\* Lines 213-216: txn_mark.done(cts); the transaction is over.
DoneCommit(t) ==
    /\ oracle = "alive"
    /\ pc[t] = "committed"
    /\ txn_mark' = WaterMarkDone(txn_mark, commit_ts[t])
    /\ done_called' = done_called \cup {commit_ts[t]}
    /\ pc' = [pc EXCEPT ![t] = "idle"]
    /\ read_ts' = [read_ts EXCEPT ![t] = 0]
    /\ fp' = [fp EXCEPT ![t] = NoFingerprint]
    /\ done_read' = [done_read EXCEPT ![t] = FALSE]
    /\ read_dones' = [read_dones EXCEPT ![t] = 0]
    /\ commit_ts' = [commit_ts EXCEPT ![t] = NoTs]
    /\ UNCHANGED <<next_txn_ts, last_cleanup_ts, committed_txns, poisoned,
                   read_mark,
                   closer, oracle, increments, log, max_begin, max_returned>>
    /\ UNCHANGED <<start_ts, keyspace_vars>>

\* ----------------------------------------------- Oracle::increment_next_ts
\* Lines 197-200.
IncrementNextTs ==
    /\ oracle = "alive"
    /\ ~poisoned
    /\ increments < MaxIncrements
    /\ next_txn_ts <= MaxTs
    /\ next_txn_ts' = next_txn_ts + 1
    /\ increments' = increments + 1
    /\ UNCHANGED <<last_cleanup_ts, committed_txns, poisoned, read_mark, txn_mark,
                   closer, oracle, pc, read_ts, fp, done_read, commit_ts, log,
                   done_called, max_begin, max_returned>>
    /\ UNCHANGED <<read_dones, start_ts, keyspace_vars>>

\* ------------------------------------------- watermark processing loops
ProcessReadMark ==
    /\ read_mark.running
    /\ read_mark.queue # <<>>
    /\ read_mark' = WaterMarkProcessOne(read_mark)
    /\ UNCHANGED <<next_txn_ts, last_cleanup_ts, committed_txns, poisoned,
                   txn_mark,
                   closer, oracle, pc, read_ts, fp, done_read, commit_ts,
                   increments, log, done_called, max_begin,
                   max_returned>>
    /\ UNCHANGED <<read_dones, start_ts, keyspace_vars>>

ProcessTxnMark ==
    /\ txn_mark.running
    /\ txn_mark.queue # <<>>
    /\ txn_mark' = WaterMarkProcessOne(txn_mark)
    /\ UNCHANGED <<next_txn_ts, last_cleanup_ts, committed_txns, poisoned,
                   read_mark,
                   closer, oracle, pc, read_ts, fp, done_read, commit_ts,
                   increments, log, done_called, max_begin,
                   max_returned>>
    /\ UNCHANGED <<read_dones, start_ts, keyspace_vars>>

\* A loop leaves once the Closer is signalled and its queue is drained.
ExitReadMark ==
    /\ read_mark.running
    /\ closer.signals > 0
    /\ read_mark.queue = <<>>
    /\ read_mark' = [read_mark EXCEPT !.running = FALSE]
    /\ closer' = CloserDone(closer)
    /\ UNCHANGED <<next_txn_ts, last_cleanup_ts, committed_txns, poisoned,
                   txn_mark,
                   oracle, pc, read_ts, fp, done_read, commit_ts, increments,
                   log, done_called, max_begin, max_returned>>
    /\ UNCHANGED <<read_dones, start_ts, keyspace_vars>>

ExitTxnMark ==
    /\ txn_mark.running
    /\ closer.signals > 0
    /\ txn_mark.queue = <<>>
    /\ txn_mark' = [txn_mark EXCEPT !.running = FALSE]
    /\ closer' = CloserDone(closer)
    /\ UNCHANGED <<next_txn_ts, last_cleanup_ts, committed_txns, poisoned,
                   read_mark,
                   oracle, pc, read_ts, fp, done_read, commit_ts, increments,
                   log, done_called, max_begin, max_returned>>
    /\ UNCHANGED <<read_dones, start_ts, keyspace_vars>>

\* ------------------------------------------------ Oracle::stop and Drop
\* No call borrows the Oracle while it is dropped.
InCall(t) == pc[t] \in {"read_begin", "read_wait", "read_blocked"}

\* Lines 218-226: drop calls stop, which signals the Closer ...
Stop ==
    /\ oracle = "alive"
    /\ \A t \in Threads : ~InCall(t)
    /\ closer' = CloserSignal(closer)
    /\ oracle' = "stopping"
    /\ UNCHANGED <<next_txn_ts, last_cleanup_ts, committed_txns, poisoned,
                   read_mark,
                   txn_mark, pc, read_ts, fp, done_read, commit_ts,
                   increments, log, done_called, max_begin,
                   max_returned>>
    /\ UNCHANGED <<read_dones, start_ts, keyspace_vars>>

\* ... and waits for every participant.
StopReturn ==
    /\ oracle = "stopping"
    /\ CloserReleased(closer)
    /\ oracle' = "dropped"
    /\ UNCHANGED <<next_txn_ts, last_cleanup_ts, committed_txns, poisoned,
                   read_mark,
                   txn_mark, closer, pc, read_ts, fp, done_read, commit_ts,
                   increments, log, done_called, max_begin,
                   max_returned>>
    /\ UNCHANGED <<read_dones, start_ts, keyspace_vars>>

Next ==
    \/ \E t \in Threads : ReadTsLock(t)
    \/ \E t \in Threads : ReadTsBegin(t)
    \/ \E t \in Threads : ReadTsWait(t)
    \/ \E t \in Threads : ReadTsWake(t)
    \/ \E t \in Threads : \E cm \in ConflictCheckers :
          next_txn_ts <= MaxTs /\ NewCommitTs(t, cm)
    \/ \E t \in Threads : DoneCommit(t)
    \/ IncrementNextTs
    \/ ProcessReadMark
    \/ ProcessTxnMark
    \/ ExitReadMark
    \/ ExitTxnMark
    \/ Stop
    \/ StopReturn

Spec == Init /\ [][Next]_vars

\* A long-lived reader beside committers, one timestamp further: the Oracle
\* is opened at 1, thread 1 starts its only transaction before any commit,
\* the other threads run transactions back to back; no timestamp is skipped
\* and the Oracle is not dropped.
InitLongReader == Init /\ next_txn_ts = 1

NextLongReader ==
    \/ \E t \in Threads : (t = 1 => next_txn_ts = 1) /\ ReadTsLock(t)
    \/ \E t \in Threads : ReadTsBegin(t)
    \/ \E t \in Threads : ReadTsWait(t)
    \/ \E t \in Threads : ReadTsWake(t)
    \/ \E t \in Threads : \E cm \in ConflictCheckers :
          next_txn_ts <= MaxTs + 1 /\ NewCommitTs(t, cm)
    \/ \E t \in Threads : DoneCommit(t)
    \/ ProcessReadMark
    \/ ProcessTxnMark

SpecLongReader == InitLongReader /\ [][NextLongReader]_vars

\* Callers that may call new_commit_ts a second time for a transaction that
\* already holds a commit timestamp; the Oracle is opened at 1, no timestamp
\* is skipped and the Oracle is not dropped.
InitRecommit == Init /\ next_txn_ts = 1

NextRecommit ==
    \/ \E t \in Threads : ReadTsLock(t)
    \/ \E t \in Threads : ReadTsBegin(t)
    \/ \E t \in Threads : ReadTsWait(t)
    \/ \E t \in Threads : ReadTsWake(t)
    \/ \E t \in Threads : \E cm \in ConflictCheckers :
          next_txn_ts <= MaxTs /\ NewCommitTs(t, cm)
    \/ \E t \in Threads : next_txn_ts <= MaxTs /\ NewCommitTsAgain(t)
    \/ \E t \in Threads : DoneCommit(t)
    \/ ProcessReadMark
    \/ ProcessTxnMark

SpecRecommit == InitRecommit /\ [][NextRecommit]_vars

\* The Oracle seeded from the sequence counter of a keyspace just created.
InitFresh == OracleNew({SequenceNumberCounterDefault}) /\ KeyspaceCreateNew

NextFresh ==
    \/ \E t \in Threads : ReadTsLock(t)
    \/ \E t \in Threads : ReadTsUnderflow(t)
    \/ \E t \in Threads : ReadTsBegin(t)
    \/ \E t \in Threads : ReadTsWait(t)
    \/ \E t \in Threads : ReadTsWake(t)
    \/ \E t \in Threads : \E cm \in ConflictCheckers :
          next_txn_ts <= MaxTs /\ NewCommitTs(t, cm)
    \/ \E t \in Threads : DoneCommit(t)
    \/ IncrementNextTs
    \/ ProcessReadMark
    \/ ProcessTxnMark

SpecFresh == InitFresh /\ [][NextFresh]_vars

\* A keyspace opened on a directory of earlier runs, and its partitions
\* opened in any order, any number of times.
InitKeyspace == OracleNew({1}) /\ KeyspaceRecover

NextKeyspace == \E name \in PartitionNames : OpenPartition(name)

SpecKeyspace == InitKeyspace /\ [][NextKeyspace]_vars

\* ================================================================ claims
\* Threads to which read_ts() has returned and whose transaction is open.
Pinned(t) == pc[t] \in {"active", "conflict"}
Returned(t) == pc[t] \in {"active", "conflict", "committed"}
InReadTs(t) == pc[t] \in {"read_begin", "read_wait", "read_blocked"}

\* This step is a successful new_commit_ts; NewTs is the timestamp it returns.
Commits == Len(log') = Len(log) + 1
NewTs == log'[Len(log')].ts

\* This step is thread t's new_commit_ts call returning.
Called(t) ==
    \/ pc[t] = "active" /\ pc'[t] \in {"conflict", "committed"}
    \/ pc[t] = "conflict" /\ pc'[t] = "committed"

\* Timestamps handed out by new_commit_ts so far.
Allocated == {log[i].ts : i \in DOMAIN log}

\* C1: a transaction is given a commit timestamp only if no transaction that
\* was ever given a commit timestamp above its read_ts conflicts with it,
\* whether or not the committed list was garbage-collected in between.
C1_NoConflictingCommit ==
    \A i \in DOMAIN log : \A j \in DOMAIN log :
        (j < i /\ log[j].ts > log[i].read_ts)
            => ~has_conflict(log[i].conflict_manager, log[j].conflict_manager)

\* C2: the timestamps returned by successful new_commit_ts calls strictly
\* increase in the order the calls complete, and none is below
\* last_cleanup_ts.
C2_Monotonic ==
    [][Commits => /\ \A i \in DOMAIN log : log[i].ts < NewTs
                  /\ NewTs >= last_cleanup_ts']_vars

C2_Witness == Len(log) >= 2 /\ last_cleanup_ts >= 1

\* C3: new_commit_ts returns Conflict exactly when the committed list holds a
\* record with commit_ts > read_ts whose fingerprint conflicts with the
\* caller's; records with commit_ts <= read_ts never cause a Conflict.
C3_ConflictIff ==
    [][\A t \in Threads : Called(t) =>
          (pc'[t] = "conflict" <=>
              \E k \in DOMAIN committed_txns :
                  /\ committed_txns[k].ts > read_ts[t]
                  /\ has_conflict(fp'[t], committed_txns[k].conflict_manager))]_vars

\* A Conflict result beside a conflicting record at the snapshot, and a
\* commit that went through past such a record.
C3_Witness ==
    /\ \E t \in Threads :
          /\ pc[t] = "conflict"
          /\ \E k \in DOMAIN committed_txns :
                /\ committed_txns[k].ts <= read_ts[t]
                /\ has_conflict(fp[t], committed_txns[k].conflict_manager)
    /\ \E i \in DOMAIN log : \E k \in DOMAIN committed_txns :
          /\ committed_txns[k].ts = log[i].read_ts
          /\ has_conflict(log[i].conflict_manager,
                          committed_txns[k].conflict_manager)

\* C4: when read_ts() has returned r, every commit timestamp <= r handed out
\* by new_commit_ts has had done_commit called for it.
C4_VisibilityGating ==
    \A t \in Threads : Returned(t) =>
        \A c \in Allocated : c <= read_ts[t] => c \in done_called

\* A reader suspended on a commit finalized out of order (2 before 1).
C4_Witness ==
    \E t, u \in Threads :
        /\ pc[t] = "read_blocked" /\ read_ts[t] = 2
        /\ 2 \in done_called /\ 1 \in Allocated \ done_called
        /\ Returned(u) /\ 1 \in Allocated

\* C5: while a transaction holds read timestamp r and has not released its
\* read mark, every record committed above r is still in committed_txns.
C5_GcSafety ==
    \A t \in Threads : Pinned(t) /\ ~done_read[t] =>
        \A c \in Allocated : c > read_ts[t] =>
            \E k \in DOMAIN committed_txns : committed_txns[k].ts = c

\* C6: with no timestamp skipped, a read_ts() call is suspended only behind a
\* commit timestamp <= its read_ts that was handed out and is not yet done;
\* the first read_ts() on a fresh Oracle does not wait.
Suspended(t) ==
    /\ pc[t] = "read_blocked"
    /\ \E x \in txn_mark.waiters : x[2] = t

DoneProcessed(c) ==
    /\ c \in done_called
    /\ \A k \in DOMAIN txn_mark.queue :
          ~(txn_mark.queue[k].kind = "done" /\ txn_mark.queue[k].index = c)

C6_ReadTsReturns ==
    \A t \in Threads : (increments = 0 /\ Suspended(t)) =>
        \E c \in Allocated : c <= read_ts[t] /\ ~DoneProcessed(c)

\* C7: a read_ts() that returned before c was allocated is below c; a
\* read_ts() that starts after done_commit(c) is at least c; a transaction's
\* read timestamp does not change.
C7_SnapshotOrdering ==
    [][/\ Commits => max_returned < NewTs
       /\ \A t \in Threads :
             /\ (pc[t] = "idle" /\ pc'[t] = "read_begin") =>
                   \A c \in done_called : read_ts'[t] >= c
             /\ ((InReadTs(t) \/ Pinned(t)) /\ pc'[t] # "idle") =>
                   read_ts'[t] = read_ts[t]]_vars

\* An old snapshot that excludes a finalized commit beside a new one that
\* includes it.
C7_Witness ==
    \E t, u \in Threads : \E c \in done_called :
        /\ Pinned(t) /\ read_ts[t] < c
        /\ Pinned(u) /\ read_ts[u] >= c

\* C8: dropping the Oracle signals the Closer once and returns only after
\* both processing loops have exited; the Closer counts exactly the loops
\* still running, so the wait is released when, and only when, both are gone.
Running == {w \in {"read_mark", "txn_mark"} :
              IF w = "read_mark" THEN read_mark.running ELSE txn_mark.running}

C8_Shutdown ==
    /\ closer.wg = Cardinality(Running)
    /\ closer.signals = (IF oracle = "alive" THEN 0 ELSE 1)
    /\ oracle = "dropped" => Running = {}
    /\ (oracle = "stopping" /\ Running = {}) => CloserReleased(closer)

C8_Witness == oracle = "dropped" /\ Len(log) >= 1

\* C9: begin events reach txn_mark in strictly increasing order and
\* read_mark in non-decreasing order.
C9_BeginsInOrder ==
    [][/\ Commits => NewTs > max_begin.txn_mark
       /\ \A t \in Threads :
             (pc[t] = "read_begin" /\ pc'[t] = "read_wait") =>
                 read_ts[t] >= max_begin.read_mark]_vars

\* C10: of two transactions with the same read_ts whose fingerprints conflict
\* with each other in both directions, at most one gets a commit timestamp.
C10_AtMostOneCommits ==
    \A i \in DOMAIN log : \A j \in DOMAIN log :
        (i # j /\ log[i].read_ts = log[j].read_ts) =>
            ~(/\ has_conflict(log[i].conflict_manager, log[j].conflict_manager)
              /\ has_conflict(log[j].conflict_manager, log[i].conflict_manager))

\* C11: in a successful new_commit_ts, with F the read_mark frontier read by
\* the cleanup: if F = last_cleanup_ts the cleanup leaves the list and the
\* floor alone; otherwise the floor becomes F and exactly the records with
\* commit_ts <= F go, the others stay in their order.  After every
\* operation every record is above last_cleanup_ts and the list strictly
\* increases in commit_ts.
Increasing(txns) ==
    \A i \in DOMAIN txns : \A j \in DOMAIN txns :
        i < j => txns[i].ts < txns[j].ts

C11_Cleanup ==
    [][/\ Commits =>
            LET F == WaterMarkDoneUntil(read_mark)
                kept == SubSeq(committed_txns', 1, Len(committed_txns') - 1)
                survivors == {committed_txns[k] : k \in
                                {x \in DOMAIN committed_txns :
                                    committed_txns[x].ts > F}}
            IN  /\ F = last_cleanup_ts =>
                      kept = committed_txns /\ UNCHANGED last_cleanup_ts
                /\ F # last_cleanup_ts =>
                      /\ last_cleanup_ts' = F
                      /\ {kept[k] : k \in DOMAIN kept} = survivors
                      /\ Len(kept) = Cardinality(survivors)
                      /\ Increasing(kept)
       /\ Increasing(committed_txns')
       /\ \A k \in DOMAIN committed_txns' :
             committed_txns'[k].ts > last_cleanup_ts']_vars

\* A cleanup that dropped a record and kept another.
C11_Witness ==
    /\ last_cleanup_ts >= 1
    /\ Len(committed_txns) >= 2
    /\ Len(committed_txns) < Len(log)

\* C12 as claimed: a record leaves committed_txns only when the read_mark
\* frontier is strictly above its commit_ts; a record at the frontier stays.
Evicted(k) ==
    \A j \in DOMAIN committed_txns' :
        committed_txns'[j].ts # committed_txns[k].ts

C12_EvictedBelowFloor ==
    [][\A k \in DOMAIN committed_txns :
          Evicted(k) =>
              WaterMarkDoneUntil(read_mark) > committed_txns[k].ts]_vars

\* C12 as the code has it: a record leaves committed_txns only when the
\* read_mark frontier is at or above its commit_ts; a record above the
\* frontier stays.
C12_EvictedAtOrBelowFloor ==
    [][\A k \in DOMAIN committed_txns :
          Evicted(k) =>
              WaterMarkDoneUntil(read_mark) >= committed_txns[k].ts]_vars

\* The record committed at the floor is gone.
C12_Witness ==
    /\ last_cleanup_ts >= 1
    /\ last_cleanup_ts \in Allocated
    /\ \A k \in DOMAIN committed_txns :
          committed_txns[k].ts # last_cleanup_ts

\* C13: neither assertion of new_commit_ts fails, whatever the interleaving
\* of read_ts, new_commit_ts, done_commit and increment_next_ts: the
\* frontier read by the cleanup is at least last_cleanup_ts, and so is the
\* timestamp handed out.
C13_AssertionsHold ==
    /\ ~poisoned
    /\ \A t \in Threads : pc[t] # "panicked"
    /\ WaterMarkDoneUntil(read_mark) >= last_cleanup_ts
    /\ next_txn_ts >= last_cleanup_ts

\* Both assertions passed with the floor off its initial value.
C13_Witness == ~poisoned /\ last_cleanup_ts >= 1 /\ Len(log) = 3

\* C14: over the attempts of one transaction with the same done_read flag,
\* read_mark.done(read_ts) is issued at most once, by the first attempt that
\* passes the conflict scan, which sets the flag; an attempt that finds the
\* flag set issues none.
C14_ReleasedOnce ==
    \A t \in Threads :
        /\ read_dones[t] = (IF done_read[t] THEN 1 ELSE 0)
        /\ done_read[t] <=> pc[t] \in {"committed", "panicked"}
              \/ (pc[t] = "conflict" /\ commit_ts[t] # NoTs)

\* A transaction that was given two commit timestamps.
C14_Witness ==
    \E t \in Threads : \E i, j \in DOMAIN log :
        /\ i < j
        /\ pc[t] = "committed" /\ commit_ts[t] = log[j].ts
        /\ log[i].read_ts = read_ts[t] /\ log[j].read_ts = read_ts[t]
        /\ log[i].conflict_manager = fp[t] /\ log[j].conflict_manager = fp[t]
        /\ log[i].ts \notin done_called

\* C15: a successful new_commit_ts returns the next_txn_ts it found under
\* the lock, moves next_txn_ts on by one, issues txn_mark.begin for the
\* value and appends one record {value, caller's fingerprint} at the end of
\* committed_txns; with no timestamp skipped, the k-th commit of an Oracle
\* opened at s returns s + k - 1.
C15_Allocation ==
    [][Commits =>
          LET last == Len(committed_txns')
          IN  /\ NewTs = next_txn_ts
              /\ next_txn_ts' = next_txn_ts + 1
              /\ txn_mark'.queue =
                    Append(txn_mark.queue,
                           [kind |-> "begin", index |-> NewTs,
                            thread |-> 0])
              /\ last >= 1
              /\ committed_txns'[last] =
                    [ts |-> NewTs,
                     conflict_manager |-> log'[Len(log')].conflict_manager]
              /\ \A k \in 1..(last - 1) :
                    \E j \in DOMAIN committed_txns :
                        committed_txns[j] = committed_txns'[k]
              /\ \E t \in Threads :
                    /\ Called(t) /\ pc'[t] = "committed"
                    /\ commit_ts'[t] = NewTs
                    /\ fp'[t] = log'[Len(log')].conflict_manager
              /\ increments = 0 => NewTs = start_ts + Len(log')  - 1]_vars

\* The third commit of an Oracle with no timestamp skipped.
C15_Witness == increments = 0 /\ Len(log) = 3

\* C16: a new_commit_ts that returns Conflict changes nothing: next_txn_ts,
\* last_cleanup_ts, committed_txns, the done_read flag and both watermarks
\* are as before, no timestamp is handed out and the read mark stays
\* registered; the caller gets its fingerprint back.
C16_ConflictFrame ==
    [][\A t \in Threads :
          (pc[t] = "active" /\ pc'[t] = "conflict") =>
              /\ UNCHANGED <<next_txn_ts, last_cleanup_ts, committed_txns,
                             done_read, read_mark, txn_mark, commit_ts, log,
                             read_dones, poisoned>>
              /\ fp'[t] \in ConflictCheckers
              /\ ~done_read[t]]_vars

\* A Conflict result with the read mark still registered.
C16_Witness ==
    \E t \in Threads :
        /\ pc[t] = "conflict"
        /\ ~done_read[t]
        /\ read_dones[t] = 0
        /\ committed_txns # <<>>
        /\ \A k \in DOMAIN read_mark.queue :
              ~(read_mark.queue[k].kind = "done"
                /\ read_mark.queue[k].index = read_ts[t])

\* C17: timestamps skipped by increment_next_ts leave no read_ts() waiting
\* for ever: on an Oracle opened at 1, after increment_next_ts, the callers
\* are never all suspended in read_ts() while every commit timestamp handed
\* out has been passed to done_commit and txn_mark has processed everything
\* sent to it.
C17_SkipDoesNotStall ==
    ~(/\ start_ts = 1
      /\ increments >= 1
      /\ \A t \in Threads : Suspended(t)
      /\ Allocated \subseteq done_called
      /\ txn_mark.queue = <<>>
      /\ txn_mark.woken = {})

\* C18: whatever next_txn_ts the Oracle was given, 0 included, read_ts()
\* computes next_txn_ts - 1 without underflow: the subtraction does not
\* panic and the read timestamp is below next_txn_ts.
C18_ReadTsBelowNext ==
    /\ ~poisoned
    /\ \A t \in Threads :
          /\ pc[t] # "panicked"
          /\ (InReadTs(t) \/ Returned(t)) => read_ts[t] < next_txn_ts

\* C19: after any successful open_partition calls the keyspace seqno is at
\* least the recovered next seqno of every tree opened so far, equals the
\* largest of its initial value and those numbers, and never decreases.
Largest(S) == CHOOSE x \in S : \A y \in S : x >= y

C19_SeqnoIsMax ==
    [][/\ seqno' >= seqno
       /\ \A i \in DOMAIN opens' : seqno' >= trees[opens'[i]]
       /\ seqno' = Largest({SequenceNumberCounterDefault}
                           \cup {trees[opens'[i]] : i \in DOMAIN opens'})]_vars

\* A tree opened after one with a larger next seqno.
C19_Witness ==
    /\ Len(opens) >= 2
    /\ trees[opens[1]] > trees[opens[2]]
    /\ seqno = trees[opens[1]]

\* C20: once open_partition(name) has succeeded the partitions map holds
\* name, and no later open_partition(name) opens the storage tree again.
C20_OpenedOnce ==
    /\ \A i \in DOMAIN opens : opens[i] \in DOMAIN partitions
    /\ \A i \in DOMAIN opens : \A j \in DOMAIN opens :
          i # j => opens[i] # opens[j]

====
